---- MODULE Spec2Model ----
(***************************************************************************)
(* The bridge message-authentication core: the weighted committee of       *)
(* bridge::committee (verify_signatures), the canonical message codec it   *)
(* signs over, and the per-message-type nonce gate of the bridge entry     *)
(* point that calls it.                                                    *)
(*                                                                         *)
(* Byte strings are sequences of numbers in 0..255.  A signature is        *)
(* represented by what sui::ecdsa_k1::secp256k1_ecrecover yields for it    *)
(* over the bytes of the call: the public key it recovers to, or no key    *)
(* when recovery fails.                                                    *)
(***************************************************************************)
EXTENDS Integers, Sequences, FiniteSets, TLC

VARIABLES
    committee,      \* the BridgeCommittee record: pub_keys and thresholds
    call,           \* the latest verify_signatures call and its result
    sequence_nums,  \* bridge: last accepted nonce of each message type
    submission,     \* bridge: the latest submitted (message, signatures)
    submissions,    \* bridge: number of submissions made so far
    msg,            \* codec: the message last encoded
    wire,           \* codec: the bytes on the wire
    decoded,        \* codec: what decoding the wire gave
    treasury,       \* the BridgeTreasury record
    tx              \* treasury: the latest call, its arguments and outcome

vars == <<committee, call, sequence_nums, submission, submissions, msg, wire, decoded,
          treasury, tx>>

----------------------------------------------------------------------------
(* Bounds of the model *)

\* longest signature list handed to verify_signatures
MaxSigs == 3
\* largest nonce a relayer submits to the bridge entry point
MaxNonce == 2
\* how many submissions one behaviour of the bridge makes
MaxSubmissions == 3
\* longest payload of an enumerated codec message
MaxPayload == 2

----------------------------------------------------------------------------
(* Message types and the domain-separation prefix *)

\* message_types::token(), the type of TEST_MSG and of the genesis threshold
TOKEN == 0
\* BridgeUtils.UPDATE_TOKEN_PRICES, the type byte of the golden vector
UPDATE_TOKEN_PRICES == 4

MessageTypes == {TOKEN, UPDATE_TOKEN_PRICES}

\* b"SUI_BRIDGE_MESSAGE"
SUI_MESSAGE_PREFIX_short ==
    <<83, 85, 73, 95, 66, 82, 73, 68, 71, 69, 95, 77, 83, 71>>

SUI_MESSAGE_PREFIX ==
    <<83, 85, 73, 95, 66, 82, 73, 68, 71, 69, 95, 77, 69, 83, 83, 65, 71, 69>>

\* abort codes of bridge::committee, and of the library calls it makes
Ok == "Ok"
ESignatureBelowThreshold == "ESignatureBelowThreshold"
EDuplicatedSignature == "EDuplicatedSignature"
EInvalidSignature == "EInvalidSignature"
\* vec_map::get on a key the map does not hold
EKeyDoesNotExist == "EKeyDoesNotExist"
\* ecdsa_k1::secp256k1_ecrecover on a signature no key recovers from
EFailToRecoverPubKey == "EFailToRecoverPubKey"
\* vector::borrow past the end of the vector
EIndexOutOfBounds == "EIndexOutOfBounds"

----------------------------------------------------------------------------
(* Message codec *)

\* the only message version in use (version byte of TEST_MSG and of the
\* golden vector)
MESSAGE_VERSION == 1

\* BridgeMessage { message_type, version, nonce, source_chain, payload }
BridgeMessage(t, v, n, c, p) ==
    [message_type |-> t, version |-> v, nonce |-> n, source_chain |-> c, payload |-> p]

\* the n low-order bytes of x, most significant first
RECURSIVE BigEndian(_, _)
BigEndian(x, n) ==
    IF n = 0 THEN <<>> ELSE Append(BigEndian(x \div 256, n - 1), x % 256)

\* the number a big-endian byte string stands for
RECURSIVE FromBigEndian(_)
FromBigEndian(bytes) ==
    IF bytes = <<>> THEN 0
    ELSE FromBigEndian(SubSeq(bytes, 1, Len(bytes) - 1)) * 256 + bytes[Len(bytes)]

\* message::serialise_message: type (1), version (1), nonce (8, big-endian),
\* source chain (1), then the payload as the remaining bytes
serialise_message(message) ==
    <<message.message_type, message.version>>
        \o BigEndian(message.nonce, 8)
        \o <<message.source_chain>>
        \o message.payload

\* BridgeUtils.encodeMessage: abi.encodePacked of the prefix, the type, the
\* version, the nonce (uint64, big-endian), the chain id and the payload
encodeMessage(message) ==
    SUI_MESSAGE_PREFIX
        \o <<message.message_type, message.version>>
        \o BigEndian(message.nonce, 8)
        \o <<message.source_chain>>
        \o message.payload

\* the seq reversed
Reverse(seq) == [i \in 1..Len(seq) |-> seq[Len(seq) + 1 - i]]

\* a variant that lays the nonce out least significant byte first
message_bytes_nonce_little_endian(message) ==
    SUI_MESSAGE_PREFIX
        \o <<message.message_type, message.version>>
        \o Reverse(BigEndian(message.nonce, 8))
        \o <<message.source_chain>>
        \o message.payload

\* a variant that puts the domain prefix before an encoding that has it
message_bytes_double_prefix(message) ==
    SUI_MESSAGE_PREFIX \o SUI_MESSAGE_PREFIX \o serialise_message(message)

\* a plausible slip: the prefix appended after the message, not before it
message_bytes_prefix_last(message) ==
    serialise_message(message) \o SUI_MESSAGE_PREFIX

\* the bytes verify_signatures checks the signatures over:
\* let message_bytes = SUI_MESSAGE_PREFIX;
\* vector::append(&mut message_bytes, message::serialise_message(message))
message_bytes(message) ==
    SUI_MESSAGE_PREFIX \o serialise_message(message)

NoMessage == BridgeMessage(0, 0, 0, 0, <<>>)
MalformedMessage == [ok |-> FALSE, message |-> NoMessage]

\* length of the fixed header: type, version, nonce, source chain
HeaderLen == 11

\* message::deserialise_message: the inverse of serialise_message; truncated
\* input and unknown versions are rejected
deserialise_message(bytes) ==
    IF Len(bytes) < HeaderLen THEN MalformedMessage
    ELSE IF bytes[2] # MESSAGE_VERSION THEN MalformedMessage
    ELSE [ok |-> TRUE,
          message |-> BridgeMessage(bytes[1], bytes[2],
                                    FromBigEndian(SubSeq(bytes, 3, 10)), bytes[11],
                                    SubSeq(bytes, HeaderLen + 1, Len(bytes)))]

\* decode: the inverse of encodeMessage; input that does not start with the
\* prefix is rejected
decodeMessage(bytes) ==
    IF Len(bytes) < Len(SUI_MESSAGE_PREFIX) THEN MalformedMessage
    ELSE IF SubSeq(bytes, 1, Len(SUI_MESSAGE_PREFIX)) # SUI_MESSAGE_PREFIX THEN MalformedMessage
    ELSE deserialise_message(SubSeq(bytes, Len(SUI_MESSAGE_PREFIX) + 1, Len(bytes)))


----------------------------------------------------------------------------
(* bridge::committee *)

\* the keys signatures may recover to; a committee holds some of them
PubKeys == {"A", "B", "C"}
\* what ecrecover gives for a signature no key recovers from
NoKey == "none"
\* member weights: 10 in the genesis committee, 100 in the test committee
Weights == {10, 100}
\* thresholds: 10 at genesis, 200 in the test committee, and 11 as the
\* threshold one unit above a single genesis weight
Thresholds == {10, 11, 200}

\* the maps from a subset of D to R (the contents a VecMap can have)
VecMaps(D, R) ==
    UNION { [S -> R] : S \in SUBSET D }

\* struct BridgeCommittee { pub_keys, thresholds }
BridgeCommittee ==
    [pub_keys : VecMaps(PubKeys, Weights), thresholds : VecMaps(MessageTypes, Thresholds)]

\* create(): the hard-coded genesis committee
create ==
    [pub_keys |-> [k \in {"A", "B"} |-> 10], thresholds |-> [t \in {TOKEN} |-> 10]]

\* setup_test(): the committee of the module's tests
setup_test ==
    [pub_keys |-> [k \in {"A", "B"} |-> 100], thresholds |-> [t \in {TOKEN} |-> 200]]

\* a signature, named by the key ecrecover yields for it
Signatures == [signer : PubKeys \cup {NoKey}]

\* the signature lists of at most n signatures
SignatureLists(n) ==
    UNION { [1..k -> Signatures] : k \in 0..n }

\* ecdsa_k1::secp256k1_ecrecover(signature, &message_bytes, 0)
secp256k1_ecrecover(signature, bytes) ==
    signature.signer

\* a plausible slip: a type without a threshold needs no weight at all
required_threshold_default_zero(self, message) ==
    IF message.message_type \in DOMAIN self.thresholds
    THEN [abort |-> Ok, value |-> self.thresholds[message.message_type]]
    ELSE [abort |-> Ok, value |-> 0]

\* *vec_map::get(&self.thresholds, &message::message_type(&message))
required_threshold(self, message) ==
    IF message.message_type \in DOMAIN self.thresholds
    THEN [abort |-> Ok, value |-> self.thresholds[message.message_type]]
    ELSE [abort |-> EKeyDoesNotExist, value |-> 0]

\* the locals of verify_signatures at the loop head, with the abort raised
\* so far and the committee as the call has left it
LoopState(i, seen, threshold, abort, self) ==
    [i |-> i, seen_pub_key |-> seen, threshold |-> threshold, abort |-> abort, self |-> self]

\* a plausible slip: the seen set holds the positions of the signatures, not
\* their keys, so a repeated key is never found
loop_body_no_duplicate_check(self, bytes, signatures, st) ==
    IF st.i >= Len(signatures)
    THEN [st EXCEPT !.abort = EIndexOutOfBounds]
    ELSE LET pubkey == secp256k1_ecrecover(signatures[st.i + 1], bytes)
         IN IF pubkey = NoKey THEN [st EXCEPT !.abort = EFailToRecoverPubKey]
            ELSE IF pubkey \notin DOMAIN self.pub_keys THEN [st EXCEPT !.abort = EInvalidSignature]
            ELSE LoopState(st.i + 1, st.seen_pub_key \cup {st.i + 1},
                           st.threshold + self.pub_keys[pubkey], Ok, st.self)

\* a plausible slip: a key outside the committee is skipped with no weight
loop_body_skips_non_member(self, bytes, signatures, st) ==
    IF st.i >= Len(signatures)
    THEN [st EXCEPT !.abort = EIndexOutOfBounds]
    ELSE LET pubkey == secp256k1_ecrecover(signatures[st.i + 1], bytes)
         IN IF pubkey = NoKey THEN [st EXCEPT !.abort = EFailToRecoverPubKey]
            ELSE IF pubkey \in st.seen_pub_key THEN [st EXCEPT !.abort = EDuplicatedSignature]
            ELSE IF pubkey \notin DOMAIN self.pub_keys
                 THEN LoopState(st.i + 1, st.seen_pub_key \cup {pubkey}, st.threshold, Ok, st.self)
            ELSE LoopState(st.i + 1, st.seen_pub_key \cup {pubkey},
                           st.threshold + self.pub_keys[pubkey], Ok, st.self)

\* a plausible slip: every signer counts 1, whatever its weight
loop_body_counts_signers(self, bytes, signatures, st) ==
    IF st.i >= Len(signatures)
    THEN [st EXCEPT !.abort = EIndexOutOfBounds]
    ELSE LET pubkey == secp256k1_ecrecover(signatures[st.i + 1], bytes)
         IN IF pubkey = NoKey THEN [st EXCEPT !.abort = EFailToRecoverPubKey]
            ELSE IF pubkey \in st.seen_pub_key THEN [st EXCEPT !.abort = EDuplicatedSignature]
            ELSE IF pubkey \notin DOMAIN self.pub_keys THEN [st EXCEPT !.abort = EInvalidSignature]
            ELSE LoopState(st.i + 1, st.seen_pub_key \cup {pubkey}, st.threshold + 1, Ok, st.self)

\* a plausible slip: duplicates found by taking each signer out of the
\* committee as it is counted
loop_body_removes_signer(self, bytes, signatures, st) ==
    IF st.i >= Len(signatures)
    THEN [st EXCEPT !.abort = EIndexOutOfBounds]
    ELSE LET pubkey == secp256k1_ecrecover(signatures[st.i + 1], bytes)
         IN IF pubkey = NoKey THEN [st EXCEPT !.abort = EFailToRecoverPubKey]
            ELSE IF pubkey \in st.seen_pub_key THEN [st EXCEPT !.abort = EDuplicatedSignature]
            ELSE IF pubkey \notin DOMAIN self.pub_keys THEN [st EXCEPT !.abort = EInvalidSignature]
            ELSE LoopState(st.i + 1, st.seen_pub_key \cup {pubkey},
                           st.threshold + self.pub_keys[pubkey], Ok,
                           [st.self EXCEPT !.pub_keys =
                               [k \in (DOMAIN st.self.pub_keys) \ {pubkey} |-> st.self.pub_keys[k]]])

\* a variant that inserts the key but leaves the index where it was
loop_body_index_stays(self, bytes, signatures, st) ==
    IF st.i >= Len(signatures)
    THEN [st EXCEPT !.abort = EIndexOutOfBounds]
    ELSE LET pubkey == secp256k1_ecrecover(signatures[st.i + 1], bytes)
         IN IF pubkey = NoKey THEN [st EXCEPT !.abort = EFailToRecoverPubKey]
            ELSE IF pubkey \in st.seen_pub_key THEN [st EXCEPT !.abort = EDuplicatedSignature]
            ELSE IF pubkey \notin DOMAIN self.pub_keys THEN [st EXCEPT !.abort = EInvalidSignature]
            ELSE LoopState(st.i, st.seen_pub_key \cup {pubkey},
                           st.threshold + self.pub_keys[pubkey], Ok, st.self)

\* one pass through the body of the while loop: borrow signature i, recover
\* its key, check it was not seen, check it is a member, add its weight,
\* advance i and insert the key into seen_pub_key (the weights of a
\* committee are far below 2^64: the u64 addition never overflows)
loop_body(self, bytes, signatures, st) ==
    IF st.i >= Len(signatures)
    THEN [st EXCEPT !.abort = EIndexOutOfBounds]
    ELSE LET pubkey == secp256k1_ecrecover(signatures[st.i + 1], bytes)
         IN IF pubkey = NoKey THEN [st EXCEPT !.abort = EFailToRecoverPubKey]
            ELSE IF pubkey \in st.seen_pub_key THEN [st EXCEPT !.abort = EDuplicatedSignature]
            ELSE IF pubkey \notin DOMAIN self.pub_keys THEN [st EXCEPT !.abort = EInvalidSignature]
            ELSE LoopState(st.i + 1, st.seen_pub_key \cup {pubkey},
                           st.threshold + self.pub_keys[pubkey], Ok, st.self)

\* while (vec_set::size(&seen_pub_key) < signature_counts) { ... }
RECURSIVE verify_loop(_, _, _, _)
verify_loop(self, bytes, signatures, st) ==
    IF st.abort = Ok /\ Cardinality(st.seen_pub_key) < Len(signatures)
    THEN verify_loop(self, bytes, signatures,
                     loop_body(self, bytes, signatures, st))
    ELSE st

\* the loop states from st on, in order: every loop head and, last, the
\* state the loop ended in (by exit or by abort)
RECURSIVE loop_states(_, _, _, _)
loop_states(self, bytes, signatures, st) ==
    IF st.abort = Ok /\ Cardinality(st.seen_pub_key) < Len(signatures)
    THEN <<st>> \o loop_states(self, bytes, signatures,
                               loop_body(self, bytes, signatures, st))
    ELSE <<st>>

\* the body of the loop in the order the algorithm is specified in: the
\* key is checked to be a member first, and to be unseen second
loop_body_member_first(self, bytes, signatures, st) ==
    IF st.i >= Len(signatures)
    THEN [st EXCEPT !.abort = EIndexOutOfBounds]
    ELSE LET pubkey == secp256k1_ecrecover(signatures[st.i + 1], bytes)
         IN IF pubkey = NoKey THEN [st EXCEPT !.abort = EFailToRecoverPubKey]
            ELSE IF pubkey \notin DOMAIN self.pub_keys THEN [st EXCEPT !.abort = EInvalidSignature]
            ELSE IF pubkey \in st.seen_pub_key THEN [st EXCEPT !.abort = EDuplicatedSignature]
            ELSE LoopState(st.i + 1, st.seen_pub_key \cup {pubkey},
                           st.threshold + self.pub_keys[pubkey], Ok, st.self)

RECURSIVE verify_loop_member_first(_, _, _, _)
verify_loop_member_first(self, bytes, signatures, st) ==
    IF st.abort = Ok /\ Cardinality(st.seen_pub_key) < Len(signatures)
    THEN verify_loop_member_first(self, bytes, signatures,
             loop_body_member_first(self, bytes, signatures, st))
    ELSE st

\* threshold >= required_threshold
quorum(threshold, required) ==
    threshold >= required

\* the result of a call: the abort code (Ok when it returns), the weight
\* accumulated, the bytes the signatures were checked over, and the
\* committee after the call
CallResult(abort, threshold, bytes, self) ==
    [abort |-> abort, threshold |-> threshold, bytes |-> bytes, self |-> self]

\* a plausible slip: an empty signature list returns before the comparison
verify_signatures_empty_returns(self, message, signatures) ==
    LET required == required_threshold(self, message)
        bytes == message_bytes(message)
        end == verify_loop(self, bytes, signatures, LoopState(0, {}, 0, Ok, self))
    IN IF required.abort # Ok THEN CallResult(required.abort, 0, <<>>, self)
       ELSE IF signatures = <<>> THEN CallResult(Ok, 0, bytes, self)
       ELSE IF end.abort # Ok THEN CallResult(end.abort, end.threshold, bytes, end.self)
       ELSE IF quorum(end.threshold, required.value)
            THEN CallResult(Ok, end.threshold, bytes, end.self)
       ELSE CallResult(ESignatureBelowThreshold, end.threshold, bytes, end.self)

\* a plausible slip: the call returns as soon as the threshold is reached
verify_signatures_stops_at_quorum(self, message, signatures) ==
    LET required == required_threshold(self, message)
        bytes == message_bytes(message)
        reached(k) ==
            LET part == verify_loop(self, bytes, SubSeq(signatures, 1, k),
                                    LoopState(0, {}, 0, Ok, self))
            IN part.abort = Ok /\ quorum(part.threshold, required.value)
        end == verify_loop(self, bytes, signatures, LoopState(0, {}, 0, Ok, self))
    IN IF required.abort # Ok THEN CallResult(required.abort, 0, <<>>, self)
       ELSE IF \E k \in 1..Len(signatures) : reached(k)
            THEN CallResult(Ok, required.value, bytes, self)
       ELSE IF end.abort # Ok THEN CallResult(end.abort, end.threshold, bytes, end.self)
       ELSE CallResult(ESignatureBelowThreshold, end.threshold, bytes, end.self)

\* verify_signatures(self, message, signatures): look the threshold up,
\* prefix the serialised message, run the loop, compare the weight
verify_signatures(self, message, signatures) ==
    LET required == required_threshold(self, message)
        bytes == message_bytes(message)
        end == verify_loop(self, bytes, signatures, LoopState(0, {}, 0, Ok, self))
    IN IF required.abort # Ok THEN CallResult(required.abort, 0, <<>>, self)
       ELSE IF end.abort # Ok THEN CallResult(end.abort, end.threshold, bytes, end.self)
       ELSE IF quorum(end.threshold, required.value)
            THEN CallResult(Ok, end.threshold, bytes, end.self)
       ELSE CallResult(ESignatureBelowThreshold, end.threshold, bytes, end.self)


----------------------------------------------------------------------------
(* Calls of verify_signatures on a committee *)

\* the messages handed to verify_signatures: a token message like TEST_MSG
\* and the price update of the regression test
TokenMessage == BridgeMessage(TOKEN, MESSAGE_VERSION, 10, 0, <<>>)
PriceMessage ==
    BridgeMessage(UPDATE_TOKEN_PRICES, 1, 266, 3, <<1, 0, 0, 0, 0, 59, 154, 202, 0>>)
VerifiedMessages == {TokenMessage, PriceMessage}

NoResult == [abort |-> "-", threshold |-> 0]
NoCall ==
    [pc |-> "idle", message |-> NoMessage, signatures |-> <<>>, result |-> NoResult, again |-> "-"]

NoSubmission ==
    [message |-> NoMessage, signatures |-> <<>>, result |-> "-"]


\* ---------------------------------------------------------------------
\* bridge::treasury (second revision)
\* ---------------------------------------------------------------------

\* the largest total supply a TreasuryCap of the model reaches
MaxSupply == 1

EUnsupportedTokenType == "EUnsupportedTokenType"
EInvalidUpgradeCap == "EInvalidUpgradeCap"
ETokenSupplyNonZero == "ETokenSupplyNonZero"

\* the aborts of the collections the treasury is built of: bag::add and
\* object_bag::add on a key that is there, bag::remove and the object_bag
\* borrow on a key that is not, vec_map::insert on a key that is there
EFieldAlreadyExists == "EFieldAlreadyExists"
EFieldDoesNotExist == "EFieldDoesNotExist"
EKeyAlreadyExists == "EKeyAlreadyExists"

\* the coin packages and the coin types declared in them
Packages == {"a", "b"}
USDC == [address |-> "b", module |-> "usdc", name |-> "USDC"]
WETH == [address |-> "a", module |-> "eth", name |-> "ETH"]
TypeNames == {USDC, WETH}
NoType == [address |-> "", module |-> "", name |-> ""]

\* type_name::into_string: the address, the module and the name of the
\* type joined by "::"
into_string(type_name) ==
    type_name.address \o "::" \o type_name.module \o "::" \o type_name.name

\* the names a governance message may approve: those of the coin types and
\* one that is the name of no type
TokenNames == { into_string(T) : T \in TypeNames } \cup {"c::dai::DAI"}

TokenIds == {1, 3}
Decimals == {6, 8, 19, 20}
NotionalValues == {10000, 12000}

\* math::pow
\* u64 arithmetic: a u64 is kept as its digits in base 10^4, the least
\* significant first and no zero digit at the top, so that values up to
\* and beyond 2^64 - 1 can be told apart
LimbBase == 10000

\* 2^64 - 1 = 18446744073709551615
U64_MAX == <<1615, 955, 737, 6744, 1844>>

RECURSIVE U64(_)
U64(n) == IF n = 0 THEN <<>> ELSE <<n % LimbBase>> \o U64(n \div LimbBase)

RECURSIVE MulCarry(_, _, _)
MulCarry(limbs, k, carry) ==
    IF limbs = <<>>
    THEN U64(carry)
    ELSE LET p == Head(limbs) * k + carry
         IN  <<p % LimbBase>> \o MulCarry(Tail(limbs), k, p \div LimbBase)

\* the product of a u64 and a small factor, as an unbounded number
Times(limbs, k) == IF k = 0 THEN <<>> ELSE MulCarry(limbs, k, 0)

RECURSIVE DigitsLessEq(_, _, _)
DigitsLessEq(a, b, k) ==
    IF k = 0 THEN TRUE
    ELSE IF a[k] # b[k] THEN a[k] < b[k]
    ELSE DigitsLessEq(a, b, k - 1)

LessEq(a, b) ==
    IF Len(a) # Len(b) THEN Len(a) < Len(b) ELSE DigitsLessEq(a, b, Len(a))

\* the abort of an arithmetic operation whose result leaves u64
EArithmeticError == "EArithmeticError"

\* a variant that stores 2^64 - 1 when the product leaves u64
RECURSIVE math_pow_saturating(_, _)
math_pow_saturating(base, exponent) ==
    IF exponent = 0 THEN [overflow |-> FALSE, value |-> U64(1)]
    ELSE LET rest == math_pow_saturating(base, exponent - 1)
             product == Times(rest.value, base)
         IN  IF LessEq(product, U64_MAX)
             THEN [overflow |-> FALSE, value |-> product]
             ELSE [overflow |-> FALSE, value |-> U64_MAX]

\* math::pow: base multiplied exponent times in u64; a product above
\* 2^64 - 1 aborts the call
RECURSIVE math_pow(_, _)
math_pow(base, exponent) ==
    IF exponent = 0 THEN [overflow |-> FALSE, value |-> U64(1)]
    ELSE LET rest == math_pow(base, exponent - 1)
             product == Times(rest.value, base)
         IN  IF rest.overflow THEN rest
             ELSE IF LessEq(product, U64_MAX)
             THEN [overflow |-> FALSE, value |-> product]
             ELSE [overflow |-> TRUE, value |-> <<>>]

\* TreasuryCap<T>, UpgradeCap and CoinMetadata<T> as far as the treasury
\* reads them
TreasuryCap(T, total_supply) == [type_name |-> T, total_supply |-> total_supply]
UpgradeCap(package) == [package |-> package]
CoinMetadata(T, decimals) == [type_name |-> T, decimals |-> decimals]

BridgeTokenMetadata(id, decimal_multiplier, notional_value, native_token) ==
    [id |-> id, decimal_multiplier |-> decimal_multiplier,
     notional_value |-> notional_value, native_token |-> native_token]

ForeignTokenRegistration(type_name, uc, decimal) ==
    [type_name |-> type_name, uc |-> uc, decimal |-> decimal]

\* the events, as records of one shape
UpdateTokenPriceEvent(token_id, new_price) ==
    [event |-> "UpdateTokenPriceEvent", token_id |-> token_id,
     type_name |-> NoType, native_token |-> FALSE, decimal |-> 0,
     new_price |-> new_price]

NewTokenEvent(token_id, type_name, native_token) ==
    [event |-> "NewTokenEvent", token_id |-> token_id,
     type_name |-> type_name, native_token |-> native_token, decimal |-> 0,
     new_price |-> 0]

TokenRegistrationEvent(type_name, decimal, native_token) ==
    [event |-> "TokenRegistrationEvent", token_id |-> 0,
     type_name |-> type_name, native_token |-> native_token,
     decimal |-> decimal, new_price |-> 0]

\* a map with the entry k -> v added or replaced, and with k removed
MapPut(m, k, v) == [x \in DOMAIN m \cup {k} |-> IF x = k THEN v ELSE m[x]]
MapDel(m, k) == [x \in DOMAIN m \ {k} |-> m[x]]
EmptyMap == [x \in {} |-> 0]

\* create: the treasury with nothing in it
treasury_create ==
    [treasuries |-> EmptyMap,
     supported_tokens |-> EmptyMap,
     id_token_type_map |-> EmptyMap,
     waiting_room |-> EmptyMap]

\* how a call ends: the abort code or Ok, the treasury as the call left
\* it (what it had written when it aborted), and the events it emitted
Aborted(code, self) == [abort |-> code, treasury |-> self, events |-> <<>>]
Returned(self, events) == [abort |-> Ok, treasury |-> self, events |-> events]

\* a variant that keeps the TreasuryCap out of the treasuries bag
register_foreign_token_no_deposit(self, tc, uc, metadata) ==
    LET type_name == tc.type_name
        registration ==
            ForeignTokenRegistration(type_name, uc, metadata.decimals)
    IN  IF tc.total_supply # 0 THEN Aborted(ETokenSupplyNonZero, self)
        ELSE IF uc.package # type_name.address
        THEN Aborted(EInvalidUpgradeCap, self)
        ELSE IF into_string(type_name) \in DOMAIN self.waiting_room
        THEN Aborted(EFieldAlreadyExists, self)
        ELSE Returned(
                 [self EXCEPT !.waiting_room =
                     MapPut(@, into_string(type_name), registration)],
                 <<TokenRegistrationEvent(type_name, metadata.decimals, FALSE)>>)

\* a variant that checks the upgrade cap first and the supply never
register_foreign_token_no_supply_check(self, tc, uc, metadata) ==
    LET type_name == tc.type_name
        registration ==
            ForeignTokenRegistration(type_name, uc, metadata.decimals)
        s1 == [self EXCEPT !.waiting_room =
                  MapPut(@, into_string(type_name), registration)]
        s2 == [s1 EXCEPT !.treasuries = MapPut(@, type_name, tc)]
    IN  IF uc.package # type_name.address
        THEN Aborted(EInvalidUpgradeCap, self)
        ELSE IF into_string(type_name) \in DOMAIN self.waiting_room
        THEN Aborted(EFieldAlreadyExists, self)
        ELSE IF type_name \in DOMAIN s1.treasuries
        THEN Aborted(EFieldAlreadyExists, s1)
        ELSE Returned(s2,
                 <<TokenRegistrationEvent(type_name, metadata.decimals, FALSE)>>)

\* register_foreign_token<T>: the supply of the TreasuryCap is zero, the
\* upgrade cap is that of the coin's package, then the registration goes
\* into the waiting room under the name of the type and the TreasuryCap
\* into treasuries under the type, and the event is emitted
register_foreign_token(self, tc, uc, metadata) ==
    LET type_name == tc.type_name
        registration ==
            ForeignTokenRegistration(type_name, uc, metadata.decimals)
        s1 == [self EXCEPT !.waiting_room =
                  MapPut(@, into_string(type_name), registration)]
        s2 == [s1 EXCEPT !.treasuries = MapPut(@, type_name, tc)]
    IN  IF tc.total_supply # 0 THEN Aborted(ETokenSupplyNonZero, self)
        ELSE IF uc.package # type_name.address
        THEN Aborted(EInvalidUpgradeCap, self)
        ELSE IF into_string(type_name) \in DOMAIN self.waiting_room
        THEN Aborted(EFieldAlreadyExists, self)
        ELSE IF type_name \in DOMAIN s1.treasuries
        THEN Aborted(EFieldAlreadyExists, s1)
        ELSE Returned(s2,
                 <<TokenRegistrationEvent(type_name, metadata.decimals, FALSE)>>)

\* a variant that leaves the token id out of id_token_type_map
approve_new_token_no_id_map(self, token_name, token_id, native_token, notional_value) ==
    IF ~native_token
    THEN IF token_name \notin DOMAIN self.waiting_room
         THEN Aborted(EFieldDoesNotExist, self)
         ELSE
           LET registration == self.waiting_room[token_name]
               type_name == registration.type_name
               s1 == [self EXCEPT !.waiting_room = MapDel(@, token_name)]
               decimal_multiplier == math_pow(10, registration.decimal)
               s2 == [s1 EXCEPT !.supported_tokens =
                         MapPut(@, type_name,
                             BridgeTokenMetadata(token_id,
                                 decimal_multiplier.value,
                                 notional_value, native_token))]
           IN  IF decimal_multiplier.overflow
               THEN Aborted(EArithmeticError, s1)
               ELSE IF type_name \in DOMAIN s1.supported_tokens
               THEN Aborted(EKeyAlreadyExists, s1)
               ELSE Returned(s2,
                        <<NewTokenEvent(token_id, type_name, native_token)>>)
    ELSE Returned(self, <<>>)

\* approve_new_token: for a foreign token the registration is taken out
\* of the waiting room, its metadata inserted under its type, the id
\* mapped to the type and the event emitted; for a native token nothing
\* is done ("Not implemented for V1") and the call returns
approve_new_token(self, token_name, token_id, native_token, notional_value) ==
    IF ~native_token
    THEN IF token_name \notin DOMAIN self.waiting_room
         THEN Aborted(EFieldDoesNotExist, self)
         ELSE
           LET registration == self.waiting_room[token_name]
               type_name == registration.type_name
               s1 == [self EXCEPT !.waiting_room = MapDel(@, token_name)]
               decimal_multiplier == math_pow(10, registration.decimal)
               s2 == [s1 EXCEPT !.supported_tokens =
                         MapPut(@, type_name,
                             BridgeTokenMetadata(token_id,
                                 decimal_multiplier.value,
                                 notional_value, native_token))]
               s3 == [s2 EXCEPT !.id_token_type_map =
                         MapPut(@, token_id, type_name)]
           IN  IF decimal_multiplier.overflow
               THEN Aborted(EArithmeticError, s1)
               ELSE IF type_name \in DOMAIN s1.supported_tokens
               THEN Aborted(EKeyAlreadyExists, s1)
               ELSE IF token_id \in DOMAIN s2.id_token_type_map
               THEN Aborted(EKeyAlreadyExists, s2)
               ELSE Returned(s3,
                        <<NewTokenEvent(token_id, type_name, native_token)>>)
    ELSE Returned(self, <<>>)

\* a variant that gives the TreasuryCap up once its supply is burnt
burn_releases_cap(self, T, value) ==
    IF T \notin DOMAIN self.treasuries
    THEN Aborted(EFieldDoesNotExist, self)
    ELSE IF self.treasuries[T].total_supply = value
    THEN Returned([self EXCEPT !.treasuries = MapDel(@, T)], <<>>)
    ELSE Returned(
             [self EXCEPT !.treasuries[T].total_supply = @ - value], <<>>)

\* a variant that mints only for the supported token types
mint_supported_only(self, T, amount) ==
    IF T \notin DOMAIN self.supported_tokens
    THEN Aborted(EUnsupportedTokenType, self)
    ELSE Returned(
             [self EXCEPT !.treasuries[T].total_supply = @ + amount], <<>>)

\* burn<T>: the TreasuryCap of T is borrowed from treasuries and the coin
\* burnt against it
burn(self, T, value) ==
    IF T \notin DOMAIN self.treasuries
    THEN Aborted(EFieldDoesNotExist, self)
    ELSE Returned(
             [self EXCEPT !.treasuries[T].total_supply = @ - value], <<>>)

\* mint<T>: the TreasuryCap of T is borrowed from treasuries and the
\* amount minted with it
mint(self, T, amount) ==
    IF T \notin DOMAIN self.treasuries
    THEN Aborted(EFieldDoesNotExist, self)
    ELSE Returned(
             [self EXCEPT !.treasuries[T].total_supply = @ + amount], <<>>)

\* a variant that sets the price of every supported token
update_asset_notional_price_all(self, token_id, new_usd_price) ==
    IF token_id \notin DOMAIN self.id_token_type_map
    THEN Aborted(EUnsupportedTokenType, self)
    ELSE Returned(
             [self EXCEPT !.supported_tokens =
                 [T \in DOMAIN @ |-> [@[T] EXCEPT !.notional_value = new_usd_price]]],
             <<UpdateTokenPriceEvent(token_id, new_usd_price)>>)

\* update_asset_notional_price: the type the id maps to, or
\* EUnsupportedTokenType; then the notional value of that type's metadata
update_asset_notional_price(self, token_id, new_usd_price) ==
    IF token_id \notin DOMAIN self.id_token_type_map
    THEN Aborted(EUnsupportedTokenType, self)
    ELSE LET type_name == self.id_token_type_map[token_id]
         IN  IF type_name \notin DOMAIN self.supported_tokens
             THEN Aborted(EKeyDoesNotExist, self)
             ELSE Returned(
                      [self EXCEPT !.supported_tokens[type_name].notional_value =
                          new_usd_price],
                      <<UpdateTokenPriceEvent(token_id, new_usd_price)>>)

\* ---------------------------------------------------------------------
\* bridge::treasury (first revision)
\* ---------------------------------------------------------------------

\* the coin types of the first revision: bridge::btc::BTC and
\* bridge::usdc::USDC
BTC == [address |-> "b", module |-> "btc", name |-> "BTC"]
FirstTypeNames == {BTC, USDC}

\* the registration of the first revision: it holds the TreasuryCap and
\* the notional value as well
FirstForeignTokenRegistration(type_name, tc, uc, decimal, notional_value) ==
    [type_name |-> type_name, tc |-> tc, uc |-> uc, decimal |-> decimal,
     notional_value |-> notional_value]

\* register_foreign_token<T> of the first revision: the upgrade cap is
\* that of the coin's package, then the registration, TreasuryCap
\* included, goes into the waiting room under the type
first_register_foreign_token(self, tc, uc, metadata, notional_value) ==
    LET type_name == tc.type_name
        registration ==
            FirstForeignTokenRegistration(type_name, tc, uc,
                metadata.decimals, notional_value)
    IN  IF uc.package # type_name.address
        THEN Aborted(EInvalidUpgradeCap, self)
        ELSE IF type_name \in DOMAIN self.waiting_room
        THEN Aborted(EFieldAlreadyExists, self)
        ELSE Returned(
                 [self EXCEPT !.waiting_room =
                     MapPut(@, type_name, registration)], <<>>)

\* approve_new_token<T> of the first revision: the registration of T is
\* taken out of the waiting room, the metadata inserted into
\* supported_tokens under type_name::get<BTC>(), the id mapped to T and
\* the TreasuryCap added to treasuries under T
first_approve_new_token(self, T, token_id, native_token) ==
    IF ~native_token
    THEN IF T \notin DOMAIN self.waiting_room
         THEN Aborted(EFieldDoesNotExist, self)
         ELSE
           LET registration == self.waiting_room[T]
               type_name == registration.type_name
               s1 == [self EXCEPT !.waiting_room = MapDel(@, T)]
               decimal_multiplier == math_pow(10, registration.decimal)
               s2 == [s1 EXCEPT !.supported_tokens =
                         MapPut(@, BTC,
                             BridgeTokenMetadata(token_id,
                                 decimal_multiplier.value,
                                 registration.notional_value, native_token))]
               s3 == [s2 EXCEPT !.id_token_type_map =
                         MapPut(@, token_id, type_name)]
               s4 == [s3 EXCEPT !.treasuries =
                         MapPut(@, type_name, registration.tc)]
           IN  IF decimal_multiplier.overflow
               THEN Aborted(EArithmeticError, s1)
               ELSE IF BTC \in DOMAIN s1.supported_tokens
               THEN Aborted(EKeyAlreadyExists, s1)
               ELSE IF token_id \in DOMAIN s2.id_token_type_map
               THEN Aborted(EKeyAlreadyExists, s2)
               ELSE IF type_name \in DOMAIN s3.treasuries
               THEN Aborted(EFieldAlreadyExists, s3)
               ELSE Returned(s4,
                        <<NewTokenEvent(token_id, type_name, native_token)>>)
    ELSE Returned(self, <<>>)

\* get_token_metadata<T>: the metadata stored under T, or
\* EUnsupportedTokenType
NoMetadata == BridgeTokenMetadata(0, <<>>, 0, FALSE)
get_token_metadata(self, T) ==
    IF T \in DOMAIN self.supported_tokens
    THEN [abort |-> Ok, value |-> self.supported_tokens[T]]
    ELSE [abort |-> EUnsupportedTokenType, value |-> NoMetadata]

\* token_id<T> and notional_value<T>
token_id_of(self, T) ==
    LET metadata == get_token_metadata(self, T)
    IN  [abort |-> metadata.abort, value |-> metadata.value.id]
notional_value_of(self, T) ==
    LET metadata == get_token_metadata(self, T)
    IN  [abort |-> metadata.abort, value |-> metadata.value.notional_value]

\* the largest number of (token id, price) pairs in one price update
MaxBatch == 2

\* a variant that passes over the pairs that name no supported token
RECURSIVE update_token_prices_skip_invalid(_, _)
update_token_prices_skip_invalid(self, pairs) ==
    IF pairs = <<>> THEN Returned(self, <<>>)
    ELSE LET first == update_asset_notional_price(self, Head(pairs).token_id,
                          Head(pairs).price)
             rest == update_token_prices_skip_invalid(
                         IF first.abort = Ok THEN first.treasury ELSE self,
                         Tail(pairs))
         IN  [rest EXCEPT !.events = first.events \o @]

\* a batched price update: update_asset_notional_price for each pair in
\* array order; the first pair that aborts aborts the call, with the
\* earlier pairs already written
RECURSIVE update_token_prices(_, _)
update_token_prices(self, pairs) ==
    IF pairs = <<>> THEN Returned(self, <<>>)
    ELSE LET first == update_asset_notional_price(self, Head(pairs).token_id,
                          Head(pairs).price)
             rest == update_token_prices(first.treasury, Tail(pairs))
         IN  IF first.abort # Ok THEN first
             ELSE [rest EXCEPT !.events = first.events \o @]

\* a variant that keeps what an aborted call had written
committed_partial(self, result) == result.treasury

\* a transaction that aborts writes nothing: the treasury after a call is
\* the one the call built when it returned, and the one before otherwise
committed(self, result) ==
    IF result.abort = Ok THEN result.treasury ELSE self

\* the latest treasury call: the function, its arguments, the treasury
\* before it, and how it ended
TreasuryCall(op, T, token_name, token_id, native_token, value, package, decimals, before, result) ==
    [op |-> op, type_name |-> T, token_name |-> token_name,
     token_id |-> token_id, native_token |-> native_token, value |-> value,
     package |-> package, decimals |-> decimals, before |-> before,
     batch |-> <<>>,
     abort |-> result.abort,
     events |-> IF result.abort = Ok THEN result.events ELSE <<>>]

NoTx ==
    TreasuryCall("none", NoType, "", 0, FALSE, 0, "", 0, treasury_create,
                 Returned(treasury_create, <<>>))

TreasuryIdle ==
    /\ treasury = treasury_create
    /\ tx = NoTx


\* the state of the bridge and of the codec while only the committee is used
BridgeIdle ==
    /\ sequence_nums = [t \in {} |-> 0]
    /\ submission = NoSubmission
    /\ submissions = 0
CodecIdle ==
    /\ msg = NoMessage
    /\ wire = <<>>
    /\ decoded = [pc |-> "idle", ok |-> FALSE, message |-> NoMessage]

Init ==
    /\ committee \in BridgeCommittee
    /\ call = NoCall
    /\ BridgeIdle
    /\ CodecIdle
    /\ TreasuryIdle

\* the committee a call leaves behind: an abort rolls the transaction back
AfterCall(self, result) ==
    IF result.abort = Ok THEN result.self ELSE self

\* a caller invokes verify_signatures(&committee, message, signatures)
VerifySignatures(message, signatures) ==
    /\ call.pc = "idle"
    /\ LET result == verify_signatures(committee, message, signatures)
       IN /\ call' = [pc |-> "returned", message |-> message, signatures |-> signatures,
                      result |-> [abort |-> result.abort, threshold |-> result.threshold],
                      again |-> "-"]
          /\ committee' = AfterCall(committee, result)
    /\ UNCHANGED <<sequence_nums, submission, submissions, msg, wire, decoded, treasury, tx>>

\* the caller makes the same call a second time
VerifyAgain ==
    /\ call.pc = "returned"
    /\ LET result == verify_signatures(committee, call.message, call.signatures)
       IN /\ call' = [call EXCEPT !.pc = "repeated", !.again = result.abort]
          /\ committee' = AfterCall(committee, result)
    /\ UNCHANGED <<sequence_nums, submission, submissions, msg, wire, decoded, treasury, tx>>

\* the transaction ends; the next one may call again
EndCall ==
    /\ call.pc \in {"returned", "repeated"}
    /\ call' = NoCall
    /\ UNCHANGED <<committee, sequence_nums, submission, submissions, msg, wire, decoded, treasury, tx>>

Next ==
    \/ \E message \in VerifiedMessages, signatures \in SignatureLists(MaxSigs) :
           VerifySignatures(message, signatures)
    \/ VerifyAgain
    \/ EndCall

Spec == Init /\ [][Next]_vars


----------------------------------------------------------------------------
(* What the claims speak of, stated on the inputs of the latest call *)

Called == call.pc # "idle"
Signer(i) == call.signatures[i].signer
Positions == 1..Len(call.signatures)
TypeHasThreshold == call.message.message_type \in DOMAIN committee.thresholds
IsMember(key) == key \in DOMAIN committee.pub_keys

\* signature i recovers to a key that is no member of the committee
NonMemberAt(i) == Signer(i) # NoKey /\ ~IsMember(Signer(i))
\* signature i recovers to a committee key an earlier signature recovered to
RepeatAt(i) == IsMember(Signer(i)) /\ \E j \in 1..(i - 1) : Signer(j) = Signer(i)
\* signature i is one the loop rejects when it reaches it
RejectedAt(i) == Signer(i) = NoKey \/ NonMemberAt(i) \/ RepeatAt(i)
\* every signature recovers to a member and no key occurs twice
AllValid == \A i \in Positions : ~RejectedAt(i)

\* the sum of the weights of a set of committee keys
RECURSIVE WeightOf(_)
WeightOf(keys) ==
    IF keys = {} THEN 0
    ELSE LET k == CHOOSE x \in keys : TRUE
         IN committee.pub_keys[k] + WeightOf(keys \ {k})

\* the distinct committee keys among the first n signatures
MemberSigners(n) == { Signer(i) : i \in 1..n } \cap DOMAIN committee.pub_keys

\* C1: verify_signatures succeeds if and only if the message type has a
\* threshold, every signature recovers to a committee key, no key occurs
\* twice, and the sum of the signers' weights is at least the threshold;
\* a sum equal to the threshold succeeds and a sum one below it fails with
\* ESignatureBelowThreshold.
C1_WeightedQuorum ==
    Called =>
        LET sum == WeightOf(MemberSigners(Len(call.signatures)))
        IN /\ (call.result.abort = Ok) <=>
                  (/\ TypeHasThreshold
                   /\ AllValid
                   /\ sum >= committee.thresholds[call.message.message_type])
           /\ (TypeHasThreshold /\ AllValid
                   /\ sum = committee.thresholds[call.message.message_type])
                  => call.result.abort = Ok
           /\ (TypeHasThreshold /\ AllValid
                   /\ sum = committee.thresholds[call.message.message_type] - 1)
                  => call.result.abort = ESignatureBelowThreshold

\* a call of two signers whose weights sum to exactly the threshold, which
\* their number does not reach
C1_Witness ==
    /\ Called
    /\ TypeHasThreshold
    /\ Len(call.signatures) = 2
    /\ call.result.abort = Ok
    /\ call.result.threshold = committee.thresholds[call.message.message_type]

\* the committee {A:100, B:100} with threshold 200 of the module's tests
IsTestCommittee ==
    /\ committee = setup_test
    /\ call.message.message_type = TOKEN
SignedBy(keys) == call.signatures = [i \in 1..Len(keys) |-> [signer |-> keys[i]]]
TestCommitteeCases ==
    IsTestCommittee =>
        /\ SignedBy(<<"A">>) => call.result.abort = ESignatureBelowThreshold
        /\ SignedBy(<<"A", "B">>) => call.result.abort = Ok
        /\ SignedBy(<<"A", "A">>) => call.result.abort = EDuplicatedSignature

\* the first signature the loop rejects, 0 when there is none
FirstRejected ==
    IF AllValid THEN 0 ELSE CHOOSE i \in Positions :
        RejectedAt(i) /\ \A j \in 1..(i - 1) : ~RejectedAt(j)

\* C2 as stated: whenever two signatures recover to the same committee key
\* the call fails with EDuplicatedSignature (read for the message types
\* that have a threshold).
C2_AnyRepeatIsDuplicated ==
    (Called /\ TypeHasThreshold) =>
        /\ (\E i \in Positions : RepeatAt(i)) =>
               /\ call.result.abort = EDuplicatedSignature
               /\ call.result.threshold <= WeightOf(MemberSigners(Len(call.signatures)))
        /\ TestCommitteeCases

\* C2 amended: when two signatures recover to the same committee key the
\* call fails and the accumulated weight counts no member twice; the
\* failure is EDuplicatedSignature when the message type has a threshold
\* and the repeat is the first signature the loop rejects; with {A:100,
\* B:100} and threshold 200, {A} is below threshold, {A,B} succeeds and
\* {A,A} is a duplicate.
C2_RepeatFails ==
    Called =>
        /\ (\E i \in Positions : RepeatAt(i)) =>
               /\ call.result.abort # Ok
               /\ call.result.threshold <= WeightOf(MemberSigners(Len(call.signatures)))
               /\ (TypeHasThreshold /\ RepeatAt(FirstRejected))
                      => call.result.abort = EDuplicatedSignature
        /\ TestCommitteeCases

\* the test committee called with {A, A}
C2_Witness ==
    /\ Called
    /\ IsTestCommittee
    /\ SignedBy(<<"A", "A">>)
    /\ call.result.abort = EDuplicatedSignature
    /\ call.result.threshold = 100

\* C3 as stated: whenever a signature recovers to a key outside the
\* committee the call fails with EInvalidSignature (read for the message
\* types that have a threshold).
C3_AnyNonMemberIsInvalid ==
    (Called /\ TypeHasThreshold /\ \E i \in Positions : NonMemberAt(i)) =>
        /\ call.result.abort = EInvalidSignature
        /\ call.result.threshold <= WeightOf(MemberSigners(Len(call.signatures)))

\* C3 amended: when a signature recovers to a key outside the committee the
\* call fails and that key adds no weight; the failure is EInvalidSignature
\* when the message type has a threshold and that signature is the first
\* one the loop rejects.
C3_NonMemberFails ==
    (Called /\ \E i \in Positions : NonMemberAt(i)) =>
        /\ call.result.abort # Ok
        /\ call.result.threshold <= WeightOf(MemberSigners(Len(call.signatures)))
        /\ (TypeHasThreshold /\ NonMemberAt(FirstRejected))
               => /\ call.result.abort = EInvalidSignature
                  /\ call.result.threshold = WeightOf(MemberSigners(FirstRejected - 1))

\* a member's signature followed by one of a key outside the committee
C3_Witness ==
    /\ Called
    /\ TypeHasThreshold
    /\ Len(call.signatures) = 2
    /\ IsMember(Signer(1))
    /\ NonMemberAt(2)
    /\ call.result.abort = EInvalidSignature

\* C4: a message whose type has no entry in thresholds always fails, with
\* the key-not-found abort of the threshold lookup, whatever the signatures;
\* the missing threshold is never read as 0.
C4_UnknownTypeFails ==
    (Called /\ ~TypeHasThreshold) => call.result.abort = EKeyDoesNotExist

\* a type without threshold, called with no signatures and with valid ones
C4_Witness ==
    /\ Called
    /\ ~TypeHasThreshold
    /\ Len(call.signatures) = 2
    /\ AllValid
    /\ call.result.abort = EKeyDoesNotExist

\* C5: an empty signature list fails with ESignatureBelowThreshold for
\* every committee and every message type that has a threshold.
C5_EmptyListBelowThreshold ==
    (Called /\ TypeHasThreshold /\ call.signatures = <<>>)
        => call.result.abort = ESignatureBelowThreshold

C5_Witness ==
    /\ Called
    /\ TypeHasThreshold
    /\ call.signatures = <<>>
    /\ committee.thresholds[call.message.message_type] = 10
    /\ call.result.abort = ESignatureBelowThreshold

\* the valid signatures before position i already reach the threshold
QuorumBefore(i) ==
    /\ TypeHasThreshold
    /\ \A j \in 1..(i - 1) : ~RejectedAt(j)
    /\ WeightOf(MemberSigners(i - 1)) >= committee.thresholds[call.message.message_type]

\* C6: a list that holds a non-member or a repeated signature fails the
\* whole call, also when the valid signatures before it already sum to the
\* threshold.
C6_NoPartialCredit ==
    (Called /\ \E i \in Positions : NonMemberAt(i) \/ RepeatAt(i))
        => call.result.abort \in
               {EInvalidSignature, EDuplicatedSignature, EFailToRecoverPubKey, EKeyDoesNotExist}

\* the signatures before the rejected one reach the threshold and the call
\* fails all the same
C6_Witness ==
    /\ Called
    /\ \E i \in Positions : (NonMemberAt(i) \/ RepeatAt(i)) /\ QuorumBefore(i)
    /\ call.result.abort \in {EInvalidSignature, EDuplicatedSignature}
    /\ call.result.threshold >= committee.thresholds[call.message.message_type]

\* C7: verify_signatures is read-only: succeeding or failing, it leaves
\* pub_keys and thresholds as they were, and the same call made again gives
\* the same outcome.
C7_ReadOnly ==
    /\ [][committee' = committee]_vars
    /\ [](call.pc = "repeated" => call.again = call.result.abort)

\* a call that succeeded, made again
C7_Witness ==
    /\ call.pc = "repeated"
    /\ call.result.abort = Ok
    /\ call.again = Ok
    /\ Len(call.signatures) = 2


----------------------------------------------------------------------------
(* The bridge entry point: verify, then check and advance the nonce *)

\* the error of a message whose nonce was already used
EMessageReplayed == "EMessageReplayed"

\* a plausible slip: only a nonce below the last accepted one is a replay
is_replay_strict(nums, message) ==
    /\ message.message_type \in DOMAIN nums
    /\ message.nonce < nums[message.message_type]

\* a nonce <= the last accepted nonce of the message's type is a replay
is_replay(nums, message) ==
    /\ message.message_type \in DOMAIN nums
    /\ message.nonce <= nums[message.message_type]

\* the last accepted nonce of the message's type becomes the message's
advance_nonce(nums, message) ==
    [t \in (DOMAIN nums) \cup {message.message_type} |->
        IF t = message.message_type THEN message.nonce ELSE nums[t]]

\* submitBridgeAction(message, signatures): the committee verifies the
\* signatures; only then is the nonce checked and advanced
submit_bridge_action(self, nums, message, signatures) ==
    LET verified == verify_signatures(self, message, signatures)
    IN IF verified.abort # Ok THEN [abort |-> verified.abort, sequence_nums |-> nums]
       ELSE IF is_replay(nums, message) THEN [abort |-> EMessageReplayed, sequence_nums |-> nums]
       ELSE [abort |-> Ok, sequence_nums |-> advance_nonce(nums, message)]

\* the committees the bridge runs with: two members of equal weight, and
\* thresholds 10 or 200 for the message types it accepts
BridgeCommittees ==
    { c \in BridgeCommittee :
        /\ DOMAIN c.pub_keys = {"A", "B"}
        /\ c.pub_keys["A"] = c.pub_keys["B"]
        /\ \A t \in DOMAIN c.thresholds : c.thresholds[t] \in {10, 200} }

\* what relayers submit: messages of each type with nonces up to MaxNonce
SubmittedMessages ==
    { BridgeMessage(t, MESSAGE_VERSION, n, 0, <<>>) : t \in MessageTypes, n \in 0..MaxNonce }
SubmittedSignatures ==
    { <<>>, <<[signer |-> "A"]>>, <<[signer |-> "A"], [signer |-> "B"]>>,
      <<[signer |-> "A"], [signer |-> "A"]>>, <<[signer |-> "B"], [signer |-> "C"]>> }

InitBridge ==
    /\ committee \in BridgeCommittees
    /\ call = NoCall
    /\ BridgeIdle
    /\ CodecIdle
    /\ TreasuryIdle

\* a relayer submits (message, signatures)
SubmitBridgeAction(message, signatures) ==
    /\ submissions < MaxSubmissions
    /\ LET done == submit_bridge_action(committee, sequence_nums, message, signatures)
       IN /\ submission' = [message |-> message, signatures |-> signatures,
                            result |-> done.abort]
          /\ sequence_nums' = done.sequence_nums
    /\ submissions' = submissions + 1
    /\ UNCHANGED <<committee, call, msg, wire, decoded, treasury, tx>>

NextBridge ==
    \E message \in SubmittedMessages, signatures \in SubmittedSignatures :
        SubmitBridgeAction(message, signatures)

SpecBridge == InitBridge /\ [][NextBridge]_vars

\* C8: submitting the same (message, signatures) again after it succeeded
\* fails with the replay error; a message whose nonce is <= the last
\* accepted nonce of its own type is rejected; the last accepted nonce of a
\* type never decreases; and accepting a message of one type leaves the
\* nonce of every other type as it was.
C8_ReplayRejected ==
    [][ submissions' = submissions + 1 =>
          LET m == submission'.message
              t == m.message_type
          IN /\ (/\ submission.result = Ok
                 /\ m = submission.message
                 /\ submission'.signatures = submission.signatures)
                    => submission'.result = EMessageReplayed
             /\ (t \in DOMAIN sequence_nums /\ m.nonce <= sequence_nums[t])
                    => /\ submission'.result # Ok
                       /\ sequence_nums' = sequence_nums
             /\ submission'.result = Ok
                    => (t \in DOMAIN sequence_nums' /\ sequence_nums'[t] = m.nonce)
             /\ \A u \in DOMAIN sequence_nums :
                    u \in DOMAIN sequence_nums' /\ sequence_nums'[u] >= sequence_nums[u]
             /\ \A u \in MessageTypes \ {t} :
                    /\ u \in DOMAIN sequence_nums' <=> u \in DOMAIN sequence_nums
                    /\ u \in DOMAIN sequence_nums => sequence_nums'[u] = sequence_nums[u]
      ]_vars

\* a message accepted and then replayed, while the other type has its own
\* accepted nonce
C8_Witness ==
    /\ submissions = 3
    /\ submission.result = EMessageReplayed
    /\ DOMAIN sequence_nums = MessageTypes
    /\ sequence_nums[submission.message.message_type] = submission.message.nonce
    /\ sequence_nums[TOKEN] # sequence_nums[UPDATE_TOKEN_PRICES]

----------------------------------------------------------------------------
(* The codec on the wire: encode, transmit, decode *)

\* bytes(1 token, price 0x3b9aca00) as the regression test writes them
PricePayload == <<1, 0, 0, 0, 0, 59, 154, 202, 0>>

\* expectedEncodedMessage of testUpdateTokenPricesRegressionTest
expectedEncodedMessage ==
    <<83, 85, 73, 95, 66, 82, 73, 68, 71, 69, 95, 77, 69, 83, 83, 65, 71, 69,
      4, 1, 0, 0, 0, 0, 0, 0, 1, 10, 3, 1, 0, 0, 0, 0, 59, 154, 202, 0>>

\* BridgeUtils.ETH, the token id of testUpdateTokenPricesWithSignatures
ETH == 2

\* price1 of testUpdateTokenPricesWithSignatures
price1 == 1000000000

\* the payload of testUpdateTokenPricesWithSignatures:
\* abi.encodePacked(_numTokenIDs, tokenID1, _numPrices, price1), that is
\* uint8 1, uint8 ETH, uint8 1, then the uint64 price in 8 bytes
PackedPricePayload == <<1, ETH, 1>> \o BigEndian(price1, 8)

\* the message of testUpdateTokenPricesWithSignatures
PackedPriceMessage ==
    BridgeMessage(UPDATE_TOKEN_PRICES, 1, 0, 1, PackedPricePayload)

\* the byte strings of at most n bytes over the sample bytes
SampleBytes == {0, 255}
Payloads(n) == UNION { [1..k -> SampleBytes] : k \in 0..n }

\* the messages encoded: every type, the known version and an unknown one,
\* nonces below and above one byte, and the message of the golden vector
CodecMessages ==
    { BridgeMessage(t, v, n, c, p) :
        t \in MessageTypes, v \in {MESSAGE_VERSION, MESSAGE_VERSION + 1},
        n \in {0, 255, 266, 65536}, c \in {0, 3}, p \in Payloads(MaxPayload) }
    \cup {PriceMessage, PackedPriceMessage}

\* a message a decoder accepts: every field in its width, the version known
ValidMessage(m) ==
    /\ m.message_type \in 0..255
    /\ m.version = MESSAGE_VERSION
    /\ m.nonce >= 0
    /\ m.source_chain \in 0..255
    /\ \A i \in 1..Len(m.payload) : m.payload[i] \in 0..255

\* the positions of the wire a relayer may alter: the prefix, the type, the
\* version, the three low bytes of the nonce, the chain id and the payload
Alterable(bytes) ==
    { i \in 1..Len(bytes) :
        i <= Len(SUI_MESSAGE_PREFIX) + 2 \/ i >= Len(SUI_MESSAGE_PREFIX) + 8 }

Undecoded == [pc |-> "idle", ok |-> FALSE, message |-> NoMessage]

InitCodec ==
    /\ committee = create
    /\ call = NoCall
    /\ BridgeIdle
    /\ CodecIdle
    /\ TreasuryIdle

\* a sender encodes a message and puts it on the wire
EncodeMessage(message) ==
    /\ wire = <<>>
    /\ msg' = message
    /\ wire' = encodeMessage(message)
    /\ decoded' = Undecoded
    /\ UNCHANGED <<committee, call, sequence_nums, submission, submissions, treasury, tx>>

\* the wire loses its tail: only the first n bytes arrive
Truncate(n) ==
    /\ msg # NoMessage
    /\ n < Len(wire)
    /\ msg' = NoMessage
    /\ wire' = SubSeq(wire, 1, n)
    /\ decoded' = Undecoded
    /\ UNCHANGED <<committee, call, sequence_nums, submission, submissions, treasury, tx>>

\* one byte of the wire is altered
Alter(i, byte) ==
    /\ msg # NoMessage
    /\ i \in Alterable(wire)
    /\ wire[i] # byte
    /\ msg' = NoMessage
    /\ wire' = [wire EXCEPT ![i] = byte]
    /\ decoded' = Undecoded
    /\ UNCHANGED <<committee, call, sequence_nums, submission, submissions, treasury, tx>>

\* a byte is added after the end of the wire
Extend(byte) ==
    /\ msg # NoMessage
    /\ msg' = NoMessage
    /\ wire' = Append(wire, byte)
    /\ decoded' = Undecoded
    /\ UNCHANGED <<committee, call, sequence_nums, submission, submissions, treasury, tx>>

\* the receiver decodes what is on the wire
DecodeMessage ==
    /\ decoded.pc = "idle"
    /\ wire # <<>>
    /\ LET got == decodeMessage(wire)
       IN decoded' = [pc |-> "decoded", ok |-> got.ok, message |-> got.message]
    /\ UNCHANGED <<committee, call, sequence_nums, submission, submissions, msg, wire, treasury, tx>>

\* the receiver is done with the bytes; the wire is free again
Consume ==
    /\ decoded.pc = "decoded"
    /\ msg' = NoMessage
    /\ wire' = <<>>
    /\ decoded' = Undecoded
    /\ UNCHANGED <<committee, call, sequence_nums, submission, submissions, treasury, tx>>

NextCodec ==
    \/ \E message \in CodecMessages : EncodeMessage(message)
    \/ Consume
    \/ \E n \in 0..(Len(wire) - 1) : Truncate(n)
    \/ \E i \in 1..Len(wire), byte \in {0, 1, 2, 255} : Alter(i, byte)
    \/ \E byte \in SampleBytes : Extend(byte)
    \/ DecodeMessage

SpecCodec == InitCodec /\ [][NextCodec]_vars

\* C9: the message {type UPDATE_TOKEN_PRICES (4), version 1, nonce 266,
\* chain 3, payload 0x01000000003b9aca00} encodes to exactly the bytes of
\* the golden vector: the ASCII prefix, the type, the version, the nonce in
\* 8 big-endian bytes, the chain id, then the payload.
C9_GoldenVector ==
    msg = PriceMessage =>
        /\ wire = expectedEncodedMessage
        /\ SubSeq(wire, 1, 18) = SUI_MESSAGE_PREFIX
        /\ wire[19] = UPDATE_TOKEN_PRICES
        /\ wire[20] = 1
        /\ SubSeq(wire, 21, 28) = <<0, 0, 0, 0, 0, 0, 1, 10>>
        /\ wire[29] = 3
        /\ SubSeq(wire, 30, Len(wire)) = PricePayload

\* the golden message is on the wire
C9_Witness ==
    /\ msg = PriceMessage
    /\ msg.nonce = 266
    /\ Len(wire) = 38
    /\ decoded.pc = "decoded"

StartsWith(bytes, p) ==
    /\ Len(bytes) >= Len(p)
    /\ SubSeq(bytes, 1, Len(p)) = p

\* the number of copies of the domain prefix bytes begins with
RECURSIVE LeadingPrefixes(_)
LeadingPrefixes(bytes) ==
    IF StartsWith(bytes, SUI_MESSAGE_PREFIX)
    THEN 1 + LeadingPrefixes(SubSeq(bytes, Len(SUI_MESSAGE_PREFIX) + 1, Len(bytes)))
    ELSE 0

\* the bytes testUpdateTokenPricesWithSignatures hashes and has the
\* committee members sign: keccak256(encodedMessage), the encoded message
\* and nothing before it
messageHash_input(message) == encodeMessage(message)

\* the value the 8 nonce bytes of an encoding stand for, most significant
\* byte first; the five high bytes are zero for every nonce of the model
NonceOf(bytes) ==
    LET at == Len(SUI_MESSAGE_PREFIX) + 2
    IN  bytes[at + 6] * 65536 + bytes[at + 7] * 256 + bytes[at + 8]

NoPrices == [ok |-> FALSE, pairs |-> <<>>]

\* the i-th (tokenId, price) pair of a payload: one byte, then 8 bytes
TokenPricePair(payload, i) ==
    LET at == 2 + 9 * (i - 1)
    IN  [token_id |-> payload[at],
         price |-> FromBigEndian(SubSeq(payload, at + 1, at + 8))]

\* decode a payload laid out as tokenCount(1) | (tokenId(1) | price(8))*;
\* a payload of any other length is rejected
decodeUpdateTokenPricesPayload(payload) ==
    IF Len(payload) = 0 THEN NoPrices
    ELSE IF Len(payload) # 1 + 9 * payload[1] THEN NoPrices
    ELSE [ok |-> TRUE,
          pairs |-> [i \in 1..payload[1] |-> TokenPricePair(payload, i)]]

\* the token ids and prices the tests mean their payloads to carry: ETH at
\* price1 in testUpdateTokenPricesWithSignatures; one token at 0x3b9aca00
\* in the regression test
IntendedPrices(payload) ==
    IF payload = PackedPricePayload
    THEN <<[token_id |-> ETH, price |-> price1]>>
    ELSE <<[token_id |-> 1, price |-> 1000000000]>>

TestPayloads == {PricePayload, PackedPricePayload}

\* C13: a price update payload is tokenCount(1 byte) and then tokenCount
\* pairs of tokenId(1 byte) and price(8 bytes big-endian), 1 + 9*tokenCount
\* bytes in all, and the payloads of the two tests decode under this layout
\* to the token ids and prices the tests intend.
C13_TestPayloadsDecode ==
    (msg # NoMessage /\ msg.payload \in TestPayloads) =>
        /\ Len(msg.payload) = 1 + 9 * msg.payload[1]
        /\ decodeUpdateTokenPricesPayload(msg.payload).ok
        /\ decodeUpdateTokenPricesPayload(msg.payload).pairs
               = IntendedPrices(msg.payload)

\* ---------------------------------------------------------------------
\* The treasury under its five operations
\* ---------------------------------------------------------------------

InitTreasury ==
    /\ committee = create
    /\ call = NoCall
    /\ BridgeIdle
    /\ CodecIdle
    /\ TreasuryIdle

\* register_foreign_token<T> with a TreasuryCap of the given supply, an
\* upgrade cap of the given package and metadata of the given decimals
RegisterForeignToken(T, total_supply, package, decimals) ==
    /\ tx = NoTx
    /\ LET result == register_foreign_token(treasury,
                         TreasuryCap(T, total_supply), UpgradeCap(package),
                         CoinMetadata(T, decimals))
       IN  /\ treasury' = committed(treasury, result)
           /\ tx' = TreasuryCall("register_foreign_token", T, into_string(T),
                        0, FALSE, total_supply, package, decimals,
                        treasury, result)
    /\ UNCHANGED <<committee, call, sequence_nums, submission, submissions,
                   msg, wire, decoded>>

ApproveNewToken(token_name, token_id, native_token, notional_value) ==
    /\ tx = NoTx
    /\ LET result == approve_new_token(treasury, token_name, token_id,
                         native_token, notional_value)
       IN  /\ treasury' = committed(treasury, result)
           /\ tx' = TreasuryCall("approve_new_token", NoType, token_name,
                        token_id, native_token, notional_value, "", 0,
                        treasury, result)
    /\ UNCHANGED <<committee, call, sequence_nums, submission, submissions,
                   msg, wire, decoded>>

UpdateAssetNotionalPrice(token_id, new_usd_price) ==
    /\ tx = NoTx
    /\ LET result == update_asset_notional_price(treasury, token_id,
                         new_usd_price)
       IN  /\ treasury' = committed(treasury, result)
           /\ tx' = TreasuryCall("update_asset_notional_price", NoType, "",
                        token_id, FALSE, new_usd_price, "", 0,
                        treasury, result)
    /\ UNCHANGED <<committee, call, sequence_nums, submission, submissions,
                   msg, wire, decoded>>

\* mint<T>; the supply stays within the bound of the model
Mint(T, amount) ==
    /\ tx = NoTx
    /\ T \in DOMAIN treasury.treasuries
           => treasury.treasuries[T].total_supply + amount <= MaxSupply
    /\ LET result == mint(treasury, T, amount)
       IN  /\ treasury' = committed(treasury, result)
           /\ tx' = TreasuryCall("mint", T, "", 0, FALSE, amount, "", 0,
                        treasury, result)
    /\ UNCHANGED <<committee, call, sequence_nums, submission, submissions,
                   msg, wire, decoded>>

\* burn<T> of a coin; a coin of a type whose TreasuryCap the treasury
\* holds is part of that cap's supply
Burn(T, value) ==
    /\ tx = NoTx
    /\ T \in DOMAIN treasury.treasuries
           => value <= treasury.treasuries[T].total_supply
    /\ LET result == burn(treasury, T, value)
       IN  /\ treasury' = committed(treasury, result)
           /\ tx' = TreasuryCall("burn", T, "", 0, FALSE, value, "", 0,
                        treasury, result)
    /\ UNCHANGED <<committee, call, sequence_nums, submission, submissions,
                   msg, wire, decoded>>

\* the transaction is over; the treasury is ready for the next call
EndTx ==
    /\ tx # NoTx
    /\ tx' = NoTx
    /\ UNCHANGED <<committee, call, sequence_nums, submission, submissions,
                   msg, wire, decoded, treasury>>

\* the pairs a price update may carry: any token id, the new price 12000
PriceUpdates == { [token_id |-> i, price |-> 12000] : i \in TokenIds \cup {2} }
Batches == UNION { [1..k -> PriceUpdates] : k \in 1..MaxBatch }

\* an UPDATE_TOKEN_PRICES message with several pairs is applied
UpdateTokenPrices(pairs) ==
    /\ tx = NoTx
    /\ LET result == update_token_prices(treasury, pairs)
       IN  /\ treasury' = committed(treasury, result)
           /\ tx' = [TreasuryCall("update_token_prices", NoType, "", 0, FALSE,
                         0, "", 0, treasury, result)
                       EXCEPT !.batch = pairs]
    /\ UNCHANGED <<committee, call, sequence_nums, submission, submissions,
                   msg, wire, decoded>>

NextTreasury ==
    \/ \E T \in TypeNames, total_supply \in 0..MaxSupply,
          package \in Packages, decimals \in Decimals :
           RegisterForeignToken(T, total_supply, package, decimals)
    \/ \E token_name \in TokenNames, token_id \in TokenIds,
          native_token \in BOOLEAN, notional_value \in NotionalValues :
           ApproveNewToken(token_name, token_id, native_token, notional_value)
    \/ \E token_id \in TokenIds \cup {2}, new_usd_price \in NotionalValues :
           UpdateAssetNotionalPrice(token_id, new_usd_price)
    \/ \E T \in TypeNames, amount \in 1..MaxSupply : Mint(T, amount)
    \/ \E T \in TypeNames, value \in 1..MaxSupply : Burn(T, value)
    \/ \E pairs \in Batches : UpdateTokenPrices(pairs)
    \/ EndTx

SpecTreasury == InitTreasury /\ [][NextTreasury]_vars

\* where a type stands in a treasury
Pending(self, token_name) == token_name \in DOMAIN self.waiting_room
Supported(self, T) == T \in DOMAIN self.supported_tokens

Status(self, T) ==
    IF Supported(self, T) THEN "Supported"
    ELSE IF Pending(self, into_string(T)) THEN "Waiting"
    ELSE "Unregistered"

Rank(status) ==
    CASE status = "Unregistered" -> 0
      [] status = "Waiting" -> 1
      [] status = "Supported" -> 2

\* the ids of the supported tokens of a treasury
SupportedIds(self) ==
    { self.supported_tokens[T].id : T \in DOMAIN self.supported_tokens }

\* the latest call was the named function
Did(op) == tx.op = op

\* C14: under register_foreign_token, approve_new_token,
\* update_asset_notional_price, mint and burn a token type only moves
\* forward through Unregistered -> Waiting -> Supported, and a
\* register_foreign_token for a type that is Waiting or Supported fails
\* and changes nothing.
C14_ForwardOnly ==
    /\ [][\A T \in TypeNames :
              Rank(Status(treasury', T)) >= Rank(Status(treasury, T))]_vars
    /\ []((Did("register_foreign_token")
             /\ Status(tx.before, tx.type_name) \in {"Waiting", "Supported"})
          => (tx.abort # Ok /\ treasury = tx.before /\ tx.events = <<>>))

\* a well-formed registration of a type that is already supported was
\* turned down at the treasuries bag
C14_Witness ==
    /\ Did("register_foreign_token")
    /\ Status(tx.before, tx.type_name) = "Supported"
    /\ tx.value = 0
    /\ tx.package = tx.type_name.address
    /\ tx.abort = EFieldAlreadyExists
    /\ Status(treasury, tx.type_name) = "Supported"

\* the type a token name is the name of, if its registration was consumed
ConsumedBefore(token_name) ==
    \E T \in TypeNames :
        /\ into_string(T) = token_name
        /\ Supported(tx.before, T)
        /\ ~Pending(tx.before, token_name)

\* C15: a pending registration is consumed exactly once: an
\* approve_new_token that returns for a pending registration has consumed
\* it, and an approve_new_token for a registration that an earlier
\* approval consumed fails with not-found, an error and not a silent
\* no-op, and leaves supported_tokens, id_token_type_map and waiting_room
\* unchanged.
C15_ConsumedOnce ==
    Did("approve_new_token") =>
        /\ (Pending(tx.before, tx.token_name) /\ tx.abort = Ok)
               => ~Pending(treasury, tx.token_name)
        /\ ConsumedBefore(tx.token_name)
               => /\ tx.abort = EFieldDoesNotExist
                  /\ treasury.supported_tokens = tx.before.supported_tokens
                  /\ treasury.id_token_type_map = tx.before.id_token_type_map
                  /\ treasury.waiting_room = tx.before.waiting_room

\* C16: supported_tokens never holds two entries with one token id; an
\* approve_new_token that reuses the id of a supported token fails, the
\* registration stays in the waiting room, and supported_tokens and
\* id_token_type_map are as before the call.
C16_UniqueIds ==
    /\ \A T1 \in DOMAIN treasury.supported_tokens,
          T2 \in DOMAIN treasury.supported_tokens :
           treasury.supported_tokens[T1].id = treasury.supported_tokens[T2].id
               => T1 = T2
    /\ (Did("approve_new_token")
           /\ Pending(tx.before, tx.token_name)
           /\ tx.token_id \in SupportedIds(tx.before))
           => /\ tx.abort # Ok
              /\ Pending(tx.before, tx.token_name)
                     => Pending(treasury, tx.token_name)
              /\ treasury.supported_tokens = tx.before.supported_tokens
              /\ treasury.id_token_type_map = tx.before.id_token_type_map

\* what a promotion of the registration named token_name leaves
Promoted(token_name) ==
    /\ Pending(tx.before, token_name)
    /\ LET registration == tx.before.waiting_room[token_name]
           T == registration.type_name
       IN  /\ treasury.waiting_room = MapDel(tx.before.waiting_room, token_name)
           /\ treasury.supported_tokens =
                  MapPut(tx.before.supported_tokens, T,
                      BridgeTokenMetadata(tx.token_id,
                          math_pow(10, registration.decimal).value,
                          tx.value, tx.native_token))
           /\ treasury.id_token_type_map =
                  MapPut(tx.before.id_token_type_map, tx.token_id, T)
           /\ registration.decimal = 6
                  => treasury.supported_tokens[T].decimal_multiplier = U64(1000000)

\* C17: an approve_new_token(token_name, token_id, native_token,
\* notional_value) that succeeds, for either value of native_token, has
\* removed the pending entry of token_name, inserted the metadata {id,
\* 10^decimal, notional_value, native_token} under the registered type and
\* mapped the id to the type.
C17_ApproveEffect ==
    (Did("approve_new_token")
       /\ Pending(tx.before, tx.token_name)
       /\ tx.abort = Ok) => Promoted(tx.token_name)

\* C18: approve_new_token for a name with no pending registration fails
\* with an unsupported-token / not-found error, whatever the id, the
\* notional value and native_token; the call never returns without
\* having promoted a registration.
C18_NoPendingFails ==
    Did("approve_new_token") =>
        /\ ~Pending(tx.before, tx.token_name)
               => tx.abort \in {EFieldDoesNotExist, EUnsupportedTokenType}
        /\ tx.abort = Ok
               => /\ Pending(tx.before, tx.token_name)
                  /\ ~Pending(treasury, tx.token_name)
                  /\ DOMAIN treasury.supported_tokens
                         # DOMAIN tx.before.supported_tokens

\* the registration events among the events of the latest call
RegistrationEvents ==
    { i \in 1..Len(tx.events) : tx.events[i].event = "TokenRegistrationEvent" }

C20_UpdatePrice ==
    Did("update_asset_notional_price") =>
        IF tx.token_id \notin SupportedIds(tx.before)
        THEN /\ tx.abort = EUnsupportedTokenType
             /\ treasury = tx.before
        ELSE LET T == tx.before.id_token_type_map[tx.token_id]
             IN  /\ tx.abort = Ok
                 /\ tx.before.supported_tokens[T].id = tx.token_id
                 /\ DOMAIN treasury.supported_tokens
                        = DOMAIN tx.before.supported_tokens
                 /\ treasury.supported_tokens[T].notional_value = tx.value
                 /\ \A U \in DOMAIN treasury.supported_tokens :
                        /\ U # T => treasury.supported_tokens[U]
                                        = tx.before.supported_tokens[U]
                        /\ treasury.supported_tokens[U].id
                               = tx.before.supported_tokens[U].id
                        /\ treasury.supported_tokens[U].decimal_multiplier
                               = tx.before.supported_tokens[U].decimal_multiplier
                        /\ treasury.supported_tokens[U].native_token
                               = tx.before.supported_tokens[U].native_token
                 /\ treasury.id_token_type_map = tx.before.id_token_type_map
                 /\ treasury.waiting_room = tx.before.waiting_room
                 /\ treasury.treasuries = tx.before.treasuries
                 /\ tx.events = <<UpdateTokenPriceEvent(tx.token_id, tx.value)>>

\* token 3 went from 10000 to 12000 while token 1 kept its price
C20_Witness ==
    /\ Did("update_asset_notional_price")
    /\ tx.abort = Ok
    /\ tx.token_id = 3
    /\ tx.value = 12000
    /\ 1 \in DOMAIN treasury.id_token_type_map
    /\ tx.before.supported_tokens[tx.before.id_token_type_map[3]].notional_value = 10000
    /\ treasury.supported_tokens[treasury.id_token_type_map[3]].notional_value = 12000
    /\ treasury.supported_tokens[treasury.id_token_type_map[1]].notional_value = 10000

\* the notional value of every supported token of a treasury
NotionalValuesOf(self) ==
    [T \in DOMAIN self.supported_tokens |-> self.supported_tokens[T].notional_value]

\* the positions of the latest batch whose pair names no supported token
InvalidPairs ==
    { i \in 1..Len(tx.batch) : tx.batch[i].token_id \notin SupportedIds(tx.before) }

\* C21: a batched price update is applied pair by pair in array order;
\* when a pair names an unsupported token id the whole call fails and
\* every token has the notional value it had before the call, the tokens
\* of the pairs before the invalid one included; a batch without such a
\* pair is applied whole. No treasury with part of a batch applied is seen.
C21_BatchAtomic ==
    Did("update_token_prices") =>
        IF InvalidPairs # {}
        THEN /\ tx.abort = EUnsupportedTokenType
             /\ NotionalValuesOf(treasury) = NotionalValuesOf(tx.before)
             /\ treasury = tx.before
             /\ tx.events = <<>>
        ELSE /\ tx.abort = Ok
             /\ \A i \in 1..Len(tx.batch) :
                    treasury.supported_tokens[
                        tx.before.id_token_type_map[tx.batch[i].token_id]
                    ].notional_value = tx.batch[i].price
             /\ Len(tx.events) = Len(tx.batch)

\* a batch whose first pair is valid and would change a price, and whose
\* second pair names an unsupported id, failed and left the price alone
C21_Witness ==
    /\ Did("update_token_prices")
    /\ Len(tx.batch) = 2
    /\ tx.batch[1].token_id \in SupportedIds(tx.before)
    /\ tx.batch[2].token_id \notin SupportedIds(tx.before)
    /\ update_asset_notional_price(tx.before, tx.batch[1].token_id,
           tx.batch[1].price).treasury # tx.before
    /\ tx.abort = EUnsupportedTokenType
    /\ treasury = tx.before

TreasuryOps ==
    {"register_foreign_token", "approve_new_token",
     "update_asset_notional_price", "update_token_prices", "mint", "burn"}

\* C22: a failing register_foreign_token, approve_new_token,
\* update_asset_notional_price, mint or burn leaves the whole treasury
\* (treasuries, supported_tokens, id_token_type_map, waiting_room) as it
\* was before the call, also when the call failed after an earlier step
\* of it had removed or inserted an entry; and it emits nothing.
C22_FailureChangesNothing ==
    (tx.op \in TreasuryOps /\ tx.abort # Ok) =>
        /\ treasury.treasuries = tx.before.treasuries
        /\ treasury.supported_tokens = tx.before.supported_tokens
        /\ treasury.id_token_type_map = tx.before.id_token_type_map
        /\ treasury.waiting_room = tx.before.waiting_room
        /\ tx.events = <<>>

\* an approval failed on a token id in use, after it had taken the
\* registration out of the waiting room and inserted the metadata
C22_Witness ==
    /\ Did("approve_new_token")
    /\ tx.abort = EKeyAlreadyExists
    /\ Pending(tx.before, tx.token_name)
    /\ LET result == approve_new_token(tx.before, tx.token_name, tx.token_id,
                         tx.native_token, tx.value)
       IN  /\ ~Pending(result.treasury, tx.token_name)
           /\ result.treasury.supported_tokens # tx.before.supported_tokens
    /\ Pending(treasury, tx.token_name)
    /\ treasury = tx.before

\* the latest call was mint<T> or burn<T>
MintOrBurn == tx.op \in {"mint", "burn"}

\* the supply the latest mint or burn leaves, given the one before
SupplyAfter(supply) ==
    IF tx.op = "mint" THEN supply + tx.value ELSE supply - tx.value

\* what a mint or burn that went through leaves: the supply of T's
\* TreasuryCap moved by the amount, and nothing else touched
PassedThrough ==
    /\ tx.abort = Ok
    /\ treasury.treasuries =
           [tx.before.treasuries EXCEPT ![tx.type_name].total_supply =
               SupplyAfter(@)]
    /\ treasury.supported_tokens = tx.before.supported_tokens
    /\ treasury.id_token_type_map = tx.before.id_token_type_map
    /\ treasury.waiting_room = tx.before.waiting_room

\* C23 as stated: mint<T> and burn<T> fail with EUnsupportedTokenType
\* when T was never registered, and otherwise pass through to the
\* TreasuryCap deposited for T and leave supported_tokens,
\* id_token_type_map and waiting_room unchanged.
C23_UnregisteredIsUnsupported ==
    MintOrBurn =>
        IF tx.type_name \notin DOMAIN tx.before.treasuries
        THEN tx.abort = EUnsupportedTokenType /\ treasury = tx.before
        ELSE PassedThrough

\* C23: mint<T> and burn<T> fail when the treasury holds no TreasuryCap
\* of T, with the abort of the borrow from the treasuries bag (the field
\* does not exist) and not with EUnsupportedTokenType; otherwise they
\* pass through to that TreasuryCap, for a type in the waiting room as
\* for a supported one, and leave supported_tokens, id_token_type_map and
\* waiting_room unchanged.
C23_UnregisteredFails ==
    MintOrBurn =>
        IF tx.type_name \notin DOMAIN tx.before.treasuries
        THEN /\ tx.abort = EFieldDoesNotExist
             /\ tx.abort # EUnsupportedTokenType
             /\ Status(tx.before, tx.type_name) = "Unregistered"
             /\ treasury = tx.before
        ELSE /\ Status(tx.before, tx.type_name) \in {"Waiting", "Supported"}
             /\ PassedThrough

\* a burn of a type the treasury never saw failed while the treasury held
\* the TreasuryCap of another type
C23_Witness ==
    /\ Did("burn")
    /\ tx.type_name \notin DOMAIN tx.before.treasuries
    /\ tx.before.treasuries # EmptyMap
    /\ tx.abort = EFieldDoesNotExist
    /\ treasury = tx.before

\* C24: a TreasuryCap deposited into the treasury is never withdrawn: the
\* set of types the treasury holds a TreasuryCap of only grows, the cap
\* held for a type stays the cap of that type, and no call hands one out.
C24_CapsOnlyGrow ==
    /\ [][/\ DOMAIN treasury.treasuries \subseteq DOMAIN treasury'.treasuries
          /\ \A T \in DOMAIN treasury.treasuries :
                 treasury'.treasuries[T].type_name = T]_vars
    /\ [](\A T \in DOMAIN treasury.treasuries :
              treasury.treasuries[T].type_name = T)

\* both caps are held, and the whole supply of one was just burnt
C24_Witness ==
    /\ Did("burn")
    /\ tx.abort = Ok
    /\ tx.before.treasuries[tx.type_name].total_supply = tx.value
    /\ treasury.treasuries[tx.type_name].total_supply = 0
    /\ DOMAIN treasury.treasuries = TypeNames

----------------------------------------------------------------------------
(* The loop of verify_signatures *)

\* the loop of the latest call as the code runs it, and as the algorithm
\* is specified, from the first signature on
LoopStart == LoopState(0, {}, 0, Ok, committee)
CodeLoop ==
    verify_loop(committee, message_bytes(call.message), call.signatures, LoopStart)
SpecifiedLoop ==
    verify_loop_member_first(committee, message_bytes(call.message),
                             call.signatures, LoopStart)
LoopStates ==
    loop_states(committee, message_bytes(call.message), call.signatures, LoopStart)

\* the outcome of a call whose loop ended in st
OutcomeOf(st) ==
    IF ~TypeHasThreshold THEN EKeyDoesNotExist
    ELSE IF st.abort # Ok THEN st.abort
    ELSE IF quorum(st.threshold,
                   committee.thresholds[call.message.message_type])
    THEN Ok
    ELSE ESignatureBelowThreshold

\* C25: verify_signatures checks "already seen" before "is a member", the
\* reverse of the specified order; for every committee and signature list
\* both orders end the same way: the same success or error code, raised
\* at the same position of the list, with the same weight and the same
\* seen keys, all of them members.
C25_OrdersAgree ==
    Called =>
        /\ CodeLoop.abort = SpecifiedLoop.abort
        /\ CodeLoop.i = SpecifiedLoop.i
        /\ CodeLoop.threshold = SpecifiedLoop.threshold
        /\ CodeLoop.seen_pub_key = SpecifiedLoop.seen_pub_key
        /\ CodeLoop.seen_pub_key \subseteq DOMAIN committee.pub_keys
        /\ call.result.abort = OutcomeOf(CodeLoop)
        /\ call.result.abort = OutcomeOf(SpecifiedLoop)

\* a list with a repeated member key and a key outside the committee was
\* verified, and the one the loop met first decided the error
C25_Witness ==
    /\ Called
    /\ TypeHasThreshold
    /\ \E i \in Positions : RepeatAt(i)
    /\ \E j \in Positions : NonMemberAt(j)
    /\ FirstRejected > 1
    /\ CodeLoop.i = FirstRejected - 1
    /\ call.result.abort \in {EDuplicatedSignature, EInvalidSignature}
    /\ call.result.abort = SpecifiedLoop.abort

\* C26: at every loop head of verify_signatures the index i is the size
\* of the seen set and at most the number of signatures, and the weight
\* accumulated is the sum of the weights of the seen keys, never above
\* the committee's total; a signature is only read at an index below the
\* length of the list, and the loop ends, by exit or abort, after at most
\* one iteration per signature.
C26_LoopInvariant ==
    Called =>
        /\ \A n \in 1..Len(LoopStates) :
               LET st == LoopStates[n]
               IN  /\ st.abort # EIndexOutOfBounds
                   /\ st.abort = Ok
                          => /\ st.i = Cardinality(st.seen_pub_key)
                             /\ st.i = n - 1
                             /\ st.i <= Len(call.signatures)
                             /\ st.seen_pub_key \subseteq DOMAIN committee.pub_keys
                             /\ st.threshold = WeightOf(st.seen_pub_key)
                             /\ st.threshold <= WeightOf(DOMAIN committee.pub_keys)
                   /\ (st.abort = Ok /\ n < Len(LoopStates))
                          => st.i < Len(call.signatures)
                   /\ st.abort # Ok => n = Len(LoopStates)
        /\ Len(LoopStates) <= Len(call.signatures) + 1
        /\ LoopStates[Len(LoopStates)] = CodeLoop

\* a call whose loop ran once per signature to the end of a full list
C26_Witness ==
    /\ Called
    /\ TypeHasThreshold
    /\ Len(call.signatures) = MaxSigs
    /\ Len(LoopStates) = MaxSigs + 1
    /\ CodeLoop.abort = Ok
    /\ CodeLoop.i = MaxSigs
    /\ CodeLoop.threshold = WeightOf(DOMAIN committee.pub_keys)

\* C27: in every reachable state of the second-revision treasury
\* id_token_type_map and supported_tokens correspond one to one: each id
\* of the map leads to a supported type whose metadata has that id, and
\* the id of each supported type leads back to the type; so when the id
\* lookup of update_asset_notional_price succeeds, its metadata lookup
\* does not fail.
C27_IdsCorrespond ==
    /\ \A id \in DOMAIN treasury.id_token_type_map :
           /\ treasury.id_token_type_map[id] \in DOMAIN treasury.supported_tokens
           /\ treasury.supported_tokens[treasury.id_token_type_map[id]].id = id
    /\ \A T \in DOMAIN treasury.supported_tokens :
           /\ treasury.supported_tokens[T].id \in DOMAIN treasury.id_token_type_map
           /\ treasury.id_token_type_map[treasury.supported_tokens[T].id] = T
    /\ \A id \in DOMAIN treasury.id_token_type_map, price \in NotionalValues :
           update_asset_notional_price(treasury, id, price).abort = Ok
    /\ Did("update_asset_notional_price")
           => /\ tx.abort # EKeyDoesNotExist
              /\ tx.token_id \in DOMAIN tx.before.id_token_type_map
                     => tx.abort = Ok

\* two tokens are supported, each under its id, and a price was updated
C27_Witness ==
    /\ Did("update_asset_notional_price")
    /\ tx.abort = Ok
    /\ DOMAIN treasury.id_token_type_map = TokenIds
    /\ DOMAIN treasury.supported_tokens = TypeNames
    /\ treasury.id_token_type_map[tx.token_id] \in TypeNames

----------------------------------------------------------------------------
(* The first revision of the treasury under its operations *)

\* register_foreign_token<T> of the first revision
FirstRegisterForeignToken(T, total_supply, package, decimals, notional_value) ==
    /\ tx = NoTx
    /\ LET result == first_register_foreign_token(treasury,
                         TreasuryCap(T, total_supply), UpgradeCap(package),
                         CoinMetadata(T, decimals), notional_value)
       IN  /\ treasury' = committed(treasury, result)
           /\ tx' = TreasuryCall("register_foreign_token", T, into_string(T),
                        0, FALSE, notional_value, package, decimals,
                        treasury, result)
    /\ UNCHANGED <<committee, call, sequence_nums, submission, submissions,
                   msg, wire, decoded>>

\* approve_new_token<T> of the first revision
FirstApproveNewToken(T, token_id, native_token) ==
    /\ tx = NoTx
    /\ LET result == first_approve_new_token(treasury, T, token_id,
                         native_token)
       IN  /\ treasury' = committed(treasury, result)
           /\ tx' = TreasuryCall("approve_new_token", T, into_string(T),
                        token_id, native_token, 0, "", 0, treasury, result)
    /\ UNCHANGED <<committee, call, sequence_nums, submission, submissions,
                   msg, wire, decoded>>

\* decimals of the coins registered with the first revision
FirstDecimals == {8, 20}

NextTreasuryFirst ==
    \/ \E T \in FirstTypeNames, package \in Packages,
          decimals \in FirstDecimals, notional_value \in NotionalValues :
           FirstRegisterForeignToken(T, 0, package, decimals, notional_value)
    \/ \E T \in FirstTypeNames, token_id \in TokenIds,
          native_token \in BOOLEAN :
           FirstApproveNewToken(T, token_id, native_token)
    \/ \E token_id \in TokenIds \cup {2}, new_usd_price \in NotionalValues :
           UpdateAssetNotionalPrice(token_id, new_usd_price)
    \/ EndTx

SpecTreasuryFirst == InitTreasury /\ [][NextTreasuryFirst]_vars

\* C28: in the first revision, after approve_new_token<T>(token_id, false)
\* succeeds for a registered type T the metadata is in supported_tokens
\* under T: token_id<T>() returns token_id, update_asset_notional_price
\* (token_id, p) succeeds and notional_value<T>() then returns p; and the
\* approval of a registered type with an id that is not in use succeeds,
\* for a second type as for the first.
C28_StoredUnderOwnType ==
    (Did("approve_new_token") /\ ~tx.native_token) =>
        /\ (tx.type_name \in DOMAIN tx.before.waiting_room
              /\ tx.token_id \notin DOMAIN tx.before.id_token_type_map
              /\ tx.before.waiting_room[tx.type_name].decimal < 20)
               => tx.abort = Ok
        /\ tx.abort = Ok
               => /\ tx.type_name \in DOMAIN treasury.supported_tokens
                  /\ token_id_of(treasury, tx.type_name)
                         = [abort |-> Ok, value |-> tx.token_id]
                  /\ \A p \in NotionalValues :
                         LET updated == update_asset_notional_price(treasury,
                                            tx.token_id, p)
                         IN  /\ updated.abort = Ok
                             /\ notional_value_of(updated.treasury, tx.type_name)
                                    = [abort |-> Ok, value |-> p]

\* the types in the waiting room of a second-revision treasury
WaitingTypes(self) ==
    { self.waiting_room[name].type_name : name \in DOMAIN self.waiting_room }

\* C29: in every reachable state of the second-revision treasury the
\* types with a deposited TreasuryCap are the Waiting types together with
\* the Supported types, and no type is both; so mint<T> goes through
\* exactly when T is Waiting or Supported, from registration on and
\* before any approval.
C29_CapsAreWaitingOrSupported ==
    /\ DOMAIN treasury.treasuries
           = WaitingTypes(treasury) \cup DOMAIN treasury.supported_tokens
    /\ WaitingTypes(treasury) \cap DOMAIN treasury.supported_tokens = {}
    /\ \A name \in DOMAIN treasury.waiting_room :
           name = into_string(treasury.waiting_room[name].type_name)
    /\ \A T \in TypeNames :
           mint(treasury, T, 1).abort = Ok
               <=> Status(treasury, T) \in {"Waiting", "Supported"}
    /\ Did("mint")
           => (tx.abort = Ok
                  <=> Status(tx.before, tx.type_name) \in {"Waiting", "Supported"})

\* a type still in the waiting room was minted
C29_Witness ==
    /\ Did("mint")
    /\ tx.abort = Ok
    /\ Status(tx.before, tx.type_name) = "Waiting"
    /\ Status(treasury, tx.type_name) = "Waiting"
    /\ treasury.treasuries[tx.type_name].total_supply = tx.value

\* 10^d as a u64 or beyond: d \div 4 zero digits below the digit 10^(d % 4)
TenTo(d) ==
    [i \in 1..(d \div 4 + 1) |->
        IF i <= d \div 4 THEN 0
        ELSE CASE d % 4 = 0 -> 1 [] d % 4 = 1 -> 10
               [] d % 4 = 2 -> 100 [] d % 4 = 3 -> 1000]

\* C30: every decimal_multiplier that approve_new_token stores is exactly
\* 10^decimal and fits in 64 bits; for a registration with decimal >= 20
\* approve_new_token fails on every attempt, nothing wrapped or truncated
\* is stored, and the registration stays in the waiting room with its
\* TreasuryCap still in treasuries.
C30_MultiplierFitsOrFails ==
    /\ \A T \in DOMAIN treasury.supported_tokens :
           /\ LessEq(treasury.supported_tokens[T].decimal_multiplier, U64_MAX)
           /\ \E d \in 0..19 :
                  treasury.supported_tokens[T].decimal_multiplier = TenTo(d)
    /\ (Did("approve_new_token") /\ Pending(tx.before, tx.token_name))
           => LET registration == tx.before.waiting_room[tx.token_name]
                  T == registration.type_name
              IN  /\ (tx.abort = Ok /\ T \in DOMAIN treasury.supported_tokens)
                         => treasury.supported_tokens[T].decimal_multiplier
                                = TenTo(registration.decimal)
                  /\ registration.decimal >= 20
                         => /\ tx.abort # Ok
                            /\ treasury = tx.before
                            /\ Pending(treasury, tx.token_name)
                            /\ T \in DOMAIN treasury.treasuries


====
